---- MODULE Spec2Model ----
(***************************************************************************)
(* Appointment scheduling core of clinic_app: the write path               *)
(* (Appointment.save / Appointment.clean, AppointmentSerializer, the       *)
(* POST /api/appointments/ view) and the slot enumerator (available_slots).*)
(*                                                                         *)
(* Instants are whole minutes counted from midnight of day 0, a Monday;    *)
(* a calendar date is a day number and a wall-clock time is a minute of    *)
(* the day.  One time zone throughout.                                     *)
(***************************************************************************)
EXTENDS Integers, Sequences, FiniteSets

VARIABLES
    appts,          \* the Appointment table: a sequence of rows, row i has pk i
    visit_types,    \* the VisitType table: visit type -> duration_minutes
    availability,   \* the DoctorClinicAvailability table: a set of rows
    last,           \* outcome of the last sequential write operation
    reqs            \* POST /api/appointments/ requests in flight

vars == <<appts, visit_types, availability, last, reqs>>

----------------------------------------------------------------------------
(* Bounds of the model *)

MaxAppts == 2

(* Time *)

MinutesPerDay == 24 * 60

At(day, h, m) == day * MinutesPerDay + h * 60 + m

HM(h, m) == h * 60 + m

\* datetime.date(): the calendar date of an instant
DateOf(t) == t \div MinutesPerDay

\* date.isoweekday(): Monday = 1 .. Sunday = 7; day 0 is a Monday
IsoWeekday(date) == (date % 7) + 1

\* datetime.combine(date, time), made aware in the one time zone
Combine(date, tod) == date * MinutesPerDay + tod

\* a missing value (None / NULL)
None == 0 - 1

----------------------------------------------------------------------------
(* The records of the store *)

Doctors == {"d1", "d2"}

Clinics == {"c1", "c2"}

VisitTypes == {"consultation", "procedure"}

STATUS_CHOICES == {"scheduled", "completed", "cancelled", "no_show"}

\* scheduled_time values the requests of this model carry: the last quarter
\* hour of day 0 and midnight of day 1
Starts == {At(0, 23, 45), At(1, 0, 0)}

Dates == {0, 1}

\* every row of the VisitType table: the two visit types the requests of
\* this model book, and a third one that slot queries also ask for
AllVisitTypes == VisitTypes \cup {"followup"}

InitVisitTypes == [vt \in AllVisitTypes |->
                     CASE vt = "consultation" -> 15
                       [] vt = "procedure" -> 45
                       [] OTHER -> 20]

Window(d, c, dow, st, en) ==
    [doctor |-> d, clinic |-> c, day_of_week |-> dow,
     start_time |-> st, end_time |-> en]

\* day_of_week 1 is day 0 (Monday), day_of_week 2 is day 1 (Tuesday)
InitAvailability ==
    { Window("d1", "c1", 1, HM(23, 30), HM(23, 59)),
      Window("d1", "c1", 2, HM(0, 0),   HM(1, 0)),
      Window("d1", "c2", 2, HM(0, 0),   HM(0, 50)),
      Window("d2", "c1", 2, HM(0, 0),   HM(1, 0)),
      Window("d2", "c2", 2, HM(0, 45),  HM(0, 15)),
      Window("d2", "c2", 1, HM(23, 5),  HM(23, 59)) }

\* the fields a create request carries; end_time is never supplied
\* (it is read-only in the serializer) and the row gets no pk before insert
Appointment(d, c, vt, s, st) ==
    [pk |-> None, doctor |-> d, clinic |-> c, visit_type |-> vt,
     scheduled_time |-> s, end_time |-> None, status |-> st]

Candidates ==
    { Appointment(d, c, vt, s, st) :
        d \in Doctors, c \in Clinics, vt \in VisitTypes,
        s \in Starts, st \in STATUS_CHOICES }

Rows(db) == { db[i] : i \in 1..Len(db) }

----------------------------------------------------------------------------
(* Appointment (models.py) *)

\* variant: a fixed half hour instead of the visit type's duration
CalculateEndTimeHalfHour(self, vts) ==
    IF self.end_time = None
    THEN [self EXCEPT !.end_time = self.scheduled_time + 30]
    ELSE self

\* variant: end_time is computed at every call
CalculateEndTimeAlways(self, vts) ==
    [self EXCEPT !.end_time = self.scheduled_time + vts[self.visit_type]]

\* Appointment.calculate_end_time: sets end_time only when it is not set
CalculateEndTime(self, vts) ==
    IF self.end_time = None
    THEN [self EXCEPT !.end_time = self.scheduled_time + vts[self.visit_type]]
    ELSE self

\* variant: only an equal scheduled_time counts as a clash
OverlappingStartOnly(self, db) ==
    { a \in Rows(db) :
        /\ a.doctor = self.doctor
        /\ a.status = "scheduled"
        /\ a.pk # self.pk
        /\ a.scheduled_time = self.scheduled_time }

\* variant: the comparisons are __lte and __gte
OverlappingInclusive(self, db) ==
    { a \in Rows(db) :
        /\ a.doctor = self.doctor
        /\ a.status = "scheduled"
        /\ a.pk # self.pk
        /\ a.scheduled_time <= self.end_time
        /\ a.end_time # None
        /\ a.end_time >= self.scheduled_time }

\* variant: the status filter is missing
OverlappingAnyStatus(self, db) ==
    { a \in Rows(db) :
        /\ a.doctor = self.doctor
        /\ a.pk # self.pk
        /\ a.scheduled_time < self.end_time
        /\ a.end_time # None
        /\ a.end_time > self.scheduled_time }

\* variant: the doctor filter is missing
OverlappingAnyDoctor(self, db) ==
    { a \in Rows(db) :
        /\ a.status = "scheduled"
        /\ a.pk # self.pk
        /\ a.scheduled_time < self.end_time
        /\ a.end_time # None
        /\ a.end_time > self.scheduled_time }

\* variant: the queryset is also filtered by clinic
OverlappingSameClinic(self, db) ==
    { a \in Rows(db) :
        /\ a.doctor = self.doctor
        /\ a.clinic = self.clinic
        /\ a.status = "scheduled"
        /\ a.pk # self.pk
        /\ a.scheduled_time < self.end_time
        /\ a.end_time # None
        /\ a.end_time > self.scheduled_time }

\* the queryset of Appointment.clean: rows of the same doctor with status
\* 'scheduled', other than self, with scheduled_time < self.end_time and
\* end_time > self.scheduled_time.  exclude(pk=None) excludes no row; a row
\* whose end_time is NULL never satisfies end_time__gt.
Overlapping(self, db) ==
    { a \in Rows(db) :
        /\ a.doctor = self.doctor
        /\ a.status = "scheduled"
        /\ a.pk # self.pk
        /\ a.scheduled_time < self.end_time
        /\ a.end_time # None
        /\ a.end_time > self.scheduled_time }

\* Appointment.clean: TRUE when it raises ValidationError
CleanRaises(self, db, vts) ==
    LET s1 == CalculateEndTime(self, vts)
    IN  Overlapping(s1, db) # {}

\* variant: the ordering is descending
FirstLatest(rows) ==
    { a \in rows : \A b \in rows : b.scheduled_time <= a.scheduled_time }

\* QuerySet.first() under Meta.ordering = ["scheduled_time"]: the rows it
\* may return, those of least scheduled_time (the database decides among
\* equals)
First(rows) ==
    { a \in rows : \A b \in rows : a.scheduled_time <= b.scheduled_time }

\* the <<start, end>> pairs the message of the ValidationError may name:
\* overlapping.first() is evaluated once for scheduled_time and once more
\* for end_time
CleanMessage(self, db, vts) ==
    LET s1 == CalculateEndTime(self, vts)
    IN  { <<a.scheduled_time, b.end_time>> :
            a \in First(Overlapping(s1, db)),
            b \in First(Overlapping(s1, db)) }

\* variant: super().save() runs before full_clean
SaveThenClean(self, db, vts) ==
    LET s1 == CalculateEndTime(self, vts)
        written == IF s1.pk = None
                   THEN Append(db, [s1 EXCEPT !.pk = Len(db) + 1])
                   ELSE [db EXCEPT ![s1.pk] = s1]
    IN  [ok |-> ~CleanRaises(s1, db, vts),
         db |-> written,
         pk |-> IF s1.pk = None THEN Len(db) + 1 ELSE s1.pk]

\* Appointment.save: calculate_end_time, full_clean, then the INSERT (no pk)
\* or UPDATE (pk set).  The result is whether it returned normally, and
\* the table afterwards.
Save(self, db, vts) ==
    LET s1 == CalculateEndTime(self, vts)
    IN  IF CleanRaises(s1, db, vts)
        THEN [ok |-> FALSE, db |-> db, pk |-> self.pk]
        ELSE IF s1.pk = None
             THEN [ok |-> TRUE,
                   db |-> Append(db, [s1 EXCEPT !.pk = Len(db) + 1]),
                   pk |-> Len(db) + 1]
             ELSE [ok |-> TRUE,
                   db |-> [db EXCEPT ![s1.pk] = s1],
                   pk |-> s1.pk]

----------------------------------------------------------------------------
(* AppointmentSerializer (serializers.py) *)

\* AppointmentSerializer.validate: clean() of a fresh Appointment(**data)
SerializerValidateRaises(data, db, vts) == CleanRaises(data, db, vts)

\* AppointmentSerializer.create: end_time from the visit type, then
\* ModelSerializer.create -> Appointment.objects.create -> save
SerializerCreateData(data, vts) ==
    [data EXCEPT !.end_time = data.scheduled_time + vts[data.visit_type]]

\* the writable fields of the model that a request body may carry
PutFields == {"doctor", "clinic", "visit_type", "scheduled_time", "status"}

\* the field sets of the update requests of this model: a PUT, and PATCHes
\* of the status alone, of doctor, visit type and status, and of doctor,
\* visit type and scheduled_time
UpdateFieldSets ==
    { PutFields,
      {"status"},
      {"doctor", "visit_type", "status"},
      {"doctor", "visit_type", "scheduled_time"} }

\* AppointmentSerializer.validate on the fields an update request carries:
\* Appointment(**data) has no pk and lacks every field the body lacks;
\* clean reads self.visit_type (in calculate_end_time) and then
\* self.doctor, each of which raises RelatedObjectDoesNotExist, an error
\* validate does not catch, when the field was not given; without a
\* scheduled_time the overlap query is skipped
SerializerValidateUpdate(data, fields, db, vts) ==
    IF "visit_type" \notin fields \/ "doctor" \notin fields
    THEN "RelatedObjectDoesNotExist"
    ELSE IF "scheduled_time" \notin fields
    THEN "valid"
    ELSE IF CleanRaises(data, db, vts)
    THEN "ValidationError"
    ELSE "valid"

\* ModelSerializer.update: setattr of each validated field on the loaded
\* instance; pk and end_time stay as loaded
SerializerUpdateInstance(instance, data, fields) ==
    [pk |-> instance.pk,
     doctor |-> IF "doctor" \in fields THEN data.doctor ELSE instance.doctor,
     clinic |-> IF "clinic" \in fields THEN data.clinic ELSE instance.clinic,
     visit_type |-> IF "visit_type" \in fields THEN data.visit_type
                    ELSE instance.visit_type,
     scheduled_time |-> IF "scheduled_time" \in fields
                        THEN data.scheduled_time
                        ELSE instance.scheduled_time,
     end_time |-> instance.end_time,
     status |-> IF "status" \in fields THEN data.status ELSE instance.status]

----------------------------------------------------------------------------
(* Initial state *)

\* a request slot with no request in it (data is a placeholder)
NoRequest ==
    [pc |-> "idle",
     data |-> Appointment("d1", "c1", "consultation", At(1, 0, 0), "scheduled")]

Init ==
    /\ appts = <<>>
    /\ visit_types = InitVisitTypes
    /\ availability = InitAvailability
    /\ last = [op |-> "none", ok |-> TRUE]
    /\ reqs = [r \in 1..MaxAppts |-> NoRequest]

----------------------------------------------------------------------------
(* Sequential write operations *)

\* Appointment.objects.create(...): a new instance, saved
ModelCreate(data) ==
    /\ Len(appts) < MaxAppts
    /\ LET r == Save(data, appts, visit_types)
       IN  /\ appts' = r.db
           /\ last' = [op |-> "create", ok |-> r.ok]
    /\ UNCHANGED <<visit_types, availability, reqs>>

\* POST /api/appointments/ served alone, by a caller allowed to book for
\* the patient named: is_valid (validate), then perform_create ->
\* serializer.save -> create
ApiCreate(data) ==
    /\ Len(appts) < MaxAppts
    /\ IF SerializerValidateRaises(data, appts, visit_types)
       THEN /\ appts' = appts
            /\ last' = [op |-> "create", ok |-> FALSE]
       ELSE LET r == Save(SerializerCreateData(data, visit_types),
                          appts, visit_types)
            IN  /\ appts' = r.db
                /\ last' = [op |-> "create", ok |-> r.ok]
    /\ UNCHANGED <<visit_types, availability, reqs>>

\* a loaded instance with its status changed, saved
SaveStatus(pk, st) ==
    /\ pk \in 1..Len(appts)
    /\ st # appts[pk].status
    /\ LET r == Save([appts[pk] EXCEPT !.status = st], appts, visit_types)
       IN  /\ appts' = r.db
           /\ last' = [op |-> "save", ok |-> r.ok]
    /\ UNCHANGED <<visit_types, availability, reqs>>

\* a loaded instance with its scheduled_time changed, saved
SaveTime(pk, s) ==
    /\ pk \in 1..Len(appts)
    /\ s # appts[pk].scheduled_time
    /\ LET r == Save([appts[pk] EXCEPT !.scheduled_time = s],
                     appts, visit_types)
       IN  /\ appts' = r.db
           /\ last' = [op |-> "save", ok |-> r.ok]
    /\ UNCHANGED <<visit_types, availability, reqs>>

\* a loaded instance with its visit_type changed, saved
SaveVisitType(pk, vt) ==
    /\ pk \in 1..Len(appts)
    /\ vt # appts[pk].visit_type
    /\ LET r == Save([appts[pk] EXCEPT !.visit_type = vt],
                     appts, visit_types)
       IN  /\ appts' = r.db
           /\ last' = [op |-> "save", ok |-> r.ok]
    /\ UNCHANGED <<visit_types, availability, reqs>>

\* a loaded instance saved with no modelled field changed (an edit of its
\* notes)
SaveNotes(pk) ==
    /\ pk \in 1..Len(appts)
    /\ LET r == Save(appts[pk], appts, visit_types)
       IN  /\ appts' = r.db
           /\ last' = [op |-> "save", ok |-> r.ok]
    /\ UNCHANGED <<visit_types, availability, reqs>>

\* the values of duration_minutes a request to change a visit type carries
DurationChoices == {10, 15, 30, 45}

\* PUT /api/visit-types/<pk>/ by clinic staff: duration_minutes is
\* validated (at least 15, at most 480) and the visit type is saved; no
\* appointment is touched
UpdateVisitType(vt, minutes) ==
    /\ minutes # visit_types[vt]
    /\ IF 15 <= minutes /\ minutes <= 480
       THEN /\ visit_types' = [visit_types EXCEPT ![vt] = minutes]
            /\ last' = [op |-> "visit_type", ok |-> TRUE]
       ELSE /\ visit_types' = visit_types
            /\ last' = [op |-> "visit_type", ok |-> FALSE]
    /\ UNCHANGED <<appts, availability, reqs>>

\* PUT or PATCH /api/appointments/<pk>/ by a caller who owns the
\* appointment: is_valid (validate on the request's fields), then
\* serializer.save -> update -> instance.save()
ApiUpdate(pk, data, fields) ==
    /\ pk \in 1..Len(appts)
    /\ IF SerializerValidateUpdate(data, fields, appts, visit_types) # "valid"
       THEN /\ appts' = appts
            /\ last' = [op |-> "update", ok |-> FALSE]
       ELSE LET r == Save(SerializerUpdateInstance(appts[pk], data, fields),
                          appts, visit_types)
            IN  /\ appts' = r.db
                /\ last' = [op |-> "update", ok |-> r.ok]
    /\ UNCHANGED <<visit_types, availability, reqs>>

----------------------------------------------------------------------------
(* available_slots (views.py) *)

\* strftime("%H:%M"): the four digits of the zero-padded wall-clock time;
\* the date is dropped
FormatHM(t) ==
    LET tod == t % MinutesPerDay
        h == tod \div 60
        m == tod % 60
    IN  <<h \div 10, h % 10, m \div 10, m % 10>>

\* variant: the status filter is missing
LoadedAppointmentsAnyStatus(doctor, date, db, vts) ==
    { IF a.end_time = None
      THEN [a EXCEPT !.end_time = a.scheduled_time + vts[a.visit_type]]
      ELSE a :
        a \in { x \in Rows(db) : /\ x.doctor = doctor
                                 /\ DateOf(x.scheduled_time) = date } }

\* the appointments the view loads: the doctor's 'scheduled' rows whose
\* scheduled_time is on the queried date; a row without end_time gets
\* scheduled_time + its visit type's duration (visit_type is never null, so
\* no loaded appointment is left without an end)
LoadedAppointments(doctor, date, db, vts) ==
    { IF a.end_time = None
      THEN [a EXCEPT !.end_time = a.scheduled_time + vts[a.visit_type]]
      ELSE a :
        a \in { x \in Rows(db) : /\ x.doctor = doctor
                                 /\ DateOf(x.scheduled_time) = date
                                 /\ x.status = "scheduled" } }

\* variant: the comparisons are <= and >=
SlotConflictInclusive(current_time, slot_end, loaded) ==
    \E a \in loaded :
        current_time <= a.end_time /\ slot_end >= a.scheduled_time

\* the inner loop: some loaded appointment has
\* current_time < appointment_end and slot_end > appointment_start
SlotConflict(current_time, slot_end, loaded) ==
    \E a \in loaded :
        current_time < a.end_time /\ slot_end > a.scheduled_time

\* variant: the loop runs while current_time <= end_time_value
RECURSIVE WalkNoFit(_, _, _, _)
WalkNoFit(current_time, end_time_value, slot_duration, loaded) ==
    IF current_time <= end_time_value
    THEN (IF SlotConflict(current_time, current_time + slot_duration, loaded)
          THEN <<>> ELSE <<current_time>>)
         \o WalkNoFit(current_time + 15, end_time_value, slot_duration, loaded)
    ELSE <<>>

\* variant: the step is the visit's duration
RECURSIVE WalkByDuration(_, _, _, _)
WalkByDuration(current_time, end_time_value, slot_duration, loaded) ==
    IF current_time + slot_duration <= end_time_value
    THEN (IF SlotConflict(current_time, current_time + slot_duration, loaded)
          THEN <<>> ELSE <<current_time>>)
         \o WalkByDuration(current_time + slot_duration, end_time_value,
                           slot_duration, loaded)
    ELSE <<>>

\* variant: each passing value is put in front of the list
RECURSIVE WalkPrepend(_, _, _, _)
WalkPrepend(current_time, end_time_value, slot_duration, loaded) ==
    IF current_time + slot_duration <= end_time_value
    THEN WalkPrepend(current_time + 15, end_time_value, slot_duration, loaded)
         \o (IF SlotConflict(current_time, current_time + slot_duration, loaded)
             THEN <<>> ELSE <<current_time>>)
    ELSE <<>>

\* the while loop: the passing current_time values, in the order appended
RECURSIVE WalkLoop(_, _, _, _)
WalkLoop(current_time, end_time_value, slot_duration, loaded) ==
    IF current_time + slot_duration <= end_time_value
    THEN (IF SlotConflict(current_time, current_time + slot_duration, loaded)
          THEN <<>> ELSE <<current_time>>)
         \o WalkLoop(current_time + 15, end_time_value, slot_duration, loaded)
    ELSE <<>>

Walk(current_time, end_time_value, slot_duration, loaded) ==
    WalkLoop(current_time, end_time_value, slot_duration, loaded)

\* variant: the loop runs until current_time passes end_time_value
RECURSIVE WalkIterationsUntilEnd(_, _, _)
WalkIterationsUntilEnd(current_time, end_time_value, slot_duration) ==
    IF current_time <= end_time_value
    THEN 1 + WalkIterationsUntilEnd(current_time + 15, end_time_value,
                                    slot_duration)
    ELSE 0

\* the number of times the body of the while loop runs: the condition is
\* tested before each iteration and current_time advances by 15 minutes
\* at the end of each
RECURSIVE WalkIterations(_, _, _)
WalkIterations(current_time, end_time_value, slot_duration) ==
    IF current_time + slot_duration <= end_time_value
    THEN 1 + WalkIterations(current_time + 15, end_time_value, slot_duration)
    ELSE 0

\* DoctorClinicAvailability.objects.get(doctor, clinic, day_of_week):
\* the rows matching (at most one, by unique_together)
WindowsFor(doctor, clinic, date, avail) ==
    { w \in avail : /\ w.doctor = doctor
                    /\ w.clinic = clinic
                    /\ w.day_of_week = IsoWeekday(date) }

\* the "available_slots" list of the response to a query whose four
\* parameters are present and resolve
AvailableSlots(doctor, clinic, vt, date, db, vts, avail) ==
    IF WindowsFor(doctor, clinic, date, avail) = {}
    THEN <<>>
    ELSE LET w == CHOOSE x \in WindowsFor(doctor, clinic, date, avail) : TRUE
             times == Walk(Combine(date, w.start_time),
                           Combine(date, w.end_time),
                           vts[vt],
                           LoadedAppointments(doctor, date, db, vts))
         IN  [i \in 1..Len(times) |-> FormatHM(times[i])]

\* request.GET.get(name) of a parameter the request does not carry
NoParam == "None"

\* datetime.strptime(date_str, "%Y-%m-%d").date() on the date strings of
\* this model: 2024-01-01, a Monday, is day 0; %m and %d also accept one
\* digit; anything else raises ValueError (None here)
Strptime(date_str) ==
    CASE date_str = "2024-01-01" -> 0
      [] date_str = "2024-01-02" -> 1
      [] date_str = "2024-1-2"   -> 1
      [] OTHER -> None

\* variant: a failed lookup is answered with an empty list
LookupErrorEmptyList(GET) ==
    [status |-> "HTTP_200_OK", available_slots |-> <<>>]

\* variant: a record that does not exist is answered 404
LookupErrorNotFound(GET) ==
    IF Strptime(GET.date) = None
    THEN [status |-> "HTTP_400_BAD_REQUEST",
          error |-> "time data does not match format '%Y-%m-%d'"]
    ELSE IF GET.doctor_id \notin Doctors
    THEN [status |-> "HTTP_404_NOT_FOUND",
          error |-> "Doctor matching query does not exist."]
    ELSE IF GET.clinic_id \notin Clinics
    THEN [status |-> "HTTP_404_NOT_FOUND",
          error |-> "Clinic matching query does not exist."]
    ELSE [status |-> "HTTP_404_NOT_FOUND",
          error |-> "VisitType matching query does not exist."]

\* the except clause of the try block that parses the date and gets the
\* doctor, the clinic and the visit type, in this order: the response to
\* the first of them that raises
LookupError(GET) ==
    IF Strptime(GET.date) = None
    THEN [status |-> "HTTP_400_BAD_REQUEST",
          error |-> "time data does not match format '%Y-%m-%d'"]
    ELSE IF GET.doctor_id \notin Doctors
    THEN [status |-> "HTTP_400_BAD_REQUEST",
          error |-> "Doctor matching query does not exist."]
    ELSE IF GET.clinic_id \notin Clinics
    THEN [status |-> "HTTP_400_BAD_REQUEST",
          error |-> "Clinic matching query does not exist."]
    ELSE [status |-> "HTTP_400_BAD_REQUEST",
          error |-> "VisitType matching query does not exist."]

\* variant: a missing window is answered as an error
NoAvailabilityError ==
    [status |-> "HTTP_400_BAD_REQUEST",
     error |-> "DoctorClinicAvailability matching query does not exist."]

\* the response to a query for which no availability row exists
NoAvailability ==
    [status |-> "HTTP_200_OK", available_slots |-> <<>>]

\* the view: the response to GET /api/available-slots/ with the query
\* parameters GET (each a string, or NoParam)
AvailableSlotsResponse(GET, db, vts, avail) ==
    IF \E k \in {"doctor_id", "clinic_id", "visit_type_id", "date"} :
           GET[k] \in {NoParam, ""}
    THEN [status |-> "HTTP_400_BAD_REQUEST",
          error |-> "Missing required parameters"]
    ELSE IF \/ Strptime(GET.date) = None
            \/ GET.doctor_id \notin Doctors
            \/ GET.clinic_id \notin Clinics
            \/ GET.visit_type_id \notin DOMAIN vts
    THEN LookupError(GET)
    ELSE LET date == Strptime(GET.date)
         IN  IF WindowsFor(GET.doctor_id, GET.clinic_id, date, avail) = {}
             THEN NoAvailability
             ELSE [status |-> "HTTP_200_OK",
                   doctor |-> GET.doctor_id,
                   clinic |-> GET.clinic_id,
                   visit_type |-> GET.visit_type_id,
                   date |-> GET.date,
                   available_slots |->
                       AvailableSlots(GET.doctor_id, GET.clinic_id,
                                      GET.visit_type_id, date, db, vts, avail)]

\* variant: the view saves the appointments whose end_time it computed
StoreAfterViewSaved(GET, db, vts, avail) ==
    IF /\ Strptime(GET.date) # None
       /\ GET.doctor_id \in Doctors
       /\ GET.clinic_id \in Clinics
       /\ GET.visit_type_id \in DOMAIN vts
       /\ WindowsFor(GET.doctor_id, GET.clinic_id, Strptime(GET.date),
                     avail) # {}
    THEN [i \in 1..Len(db) |->
            IF /\ db[i].doctor = GET.doctor_id
               /\ DateOf(db[i].scheduled_time) = Strptime(GET.date)
               /\ db[i].status = "scheduled"
               /\ db[i].end_time = None
            THEN [db[i] EXCEPT
                    !.end_time = db[i].scheduled_time + vts[db[i].visit_type]]
            ELSE db[i]]
    ELSE db

\* the table after the view has run: the view assigns the end_time it
\* computes to the loaded objects only and calls no save, create, update or
\* delete
StoreAfterView(GET, db, vts, avail) == db

\* GET /api/available-slots/ as a step of the program: the response is
\* recorded, the store is what the view leaves
GetAvailableSlots(GET) ==
    /\ LET response == AvailableSlotsResponse(GET, appts, visit_types,
                                              availability)
       IN  last' = [op |-> "slots", ok |-> response.status = "HTTP_200_OK",
                    GET |-> GET, response |-> response]
    /\ appts' = StoreAfterView(GET, appts, visit_types, availability)
    /\ UNCHANGED <<visit_types, availability, reqs>>

\* a 'scheduled' row written without Appointment.save (a bulk insert, a
\* queryset update, a row older than the end_time column): end_time is
\* nullable and is left NULL; no validation runs
LegacyInsert(data) ==
    /\ Len(appts) < MaxAppts
    /\ data.status = "scheduled"
    /\ appts' = Append(appts, [data EXCEPT !.pk = Len(appts) + 1])
    /\ last' = [op |-> "legacy", ok |-> TRUE]
    /\ UNCHANGED <<visit_types, availability, reqs>>

----------------------------------------------------------------------------
(* AppointmentListCreateView.create and the patient of the appointment *)

Patients == {"p1", "p2"}

\* the authenticated users: two who have a patient record and a staff user
\* who has none
Users == {"patient_user_1", "patient_user_2", "staff_user"}

\* request.user.patient.id, NoParam when hasattr(request.user, "patient")
\* is false
UserPatient(user) ==
    CASE user = "patient_user_1" -> "p1"
      [] user = "patient_user_2" -> "p2"
      [] OTHER -> NoParam

\* the values of the "patient" field of a request body: the id of a
\* patient, the id of no patient, or no field
PatientIds == Patients \cup {"999", NoParam}

\* variant: the patient named in the body is taken as it is
ResolvePatientAsNamed(user, named) ==
    IF named = NoParam THEN UserPatient(user) ELSE named

\* the first block of create: for a user with a patient record, a body
\* that names another patient is answered 403, and a body without the
\* field gets the user's own patient; the result is the patient id the
\* serializer receives (NoParam when there is none)
ResolvePatient(user, named) ==
    IF UserPatient(user) # NoParam
    THEN IF named # NoParam
         THEN IF named # UserPatient(user)
              THEN "HTTP_403_FORBIDDEN"
              ELSE named
         ELSE UserPatient(user)
    ELSE named

\* the instance the serializer builds from the body and the patient
PatientAppointment(patient, data) ==
    [pk |-> None, patient |-> patient, doctor |-> data.doctor,
     clinic |-> data.clinic, visit_type |-> data.visit_type,
     scheduled_time |-> data.scheduled_time, end_time |-> None,
     status |-> data.status]

\* POST /api/appointments/ by an authenticated user: the patient block,
\* is_valid (the patient field is required and must name a patient; then
\* validate), perform_create, and the response's status
ViewCreate(user, named, data) ==
    /\ Len(appts) < MaxAppts
    /\ LET patient == ResolvePatient(user, named)
           instance == PatientAppointment(patient, data)
       IN  IF patient = "HTTP_403_FORBIDDEN"
           THEN /\ appts' = appts
                /\ last' = [op |-> "post", ok |-> FALSE, user |-> user,
                            patient |-> named,
                            status |-> "HTTP_403_FORBIDDEN"]
           ELSE IF \/ patient \notin Patients
                   \/ SerializerValidateRaises(instance, appts, visit_types)
           THEN /\ appts' = appts
                /\ last' = [op |-> "post", ok |-> FALSE, user |-> user,
                            patient |-> named,
                            status |-> "HTTP_400_BAD_REQUEST"]
           ELSE LET r == Save(SerializerCreateData(instance, visit_types),
                              appts, visit_types)
                IN  /\ appts' = r.db
                    /\ last' = [op |-> "post", ok |-> r.ok, user |-> user,
                                patient |-> named,
                                status |-> IF r.ok THEN "HTTP_201_CREATED"
                                           ELSE "HTTP_400_BAD_REQUEST"]
    /\ UNCHANGED <<visit_types, availability, reqs>>

----------------------------------------------------------------------------
(* POST /api/appointments/ served concurrently: each request is three     *)
(* steps on the shared table, with nothing held between them               *)

\* serializer.is_valid: AppointmentSerializer.validate against the table
ReqValidate(r, data) ==
    /\ reqs[r].pc = "idle"
    /\ reqs' = [reqs EXCEPT ![r] =
                  [pc |-> IF SerializerValidateRaises(data, appts, visit_types)
                          THEN "rejected" ELSE "validated",
                   data |-> SerializerCreateData(data, visit_types)]]
    /\ UNCHANGED <<appts, visit_types, availability, last>>

\* perform_create -> Appointment.save: calculate_end_time and full_clean
ReqFullClean(r) ==
    /\ reqs[r].pc = "validated"
    /\ reqs' = [reqs EXCEPT ![r].pc =
                  IF CleanRaises(reqs[r].data, appts, visit_types)
                  THEN "rejected" ELSE "cleaned"]
    /\ UNCHANGED <<appts, visit_types, availability, last>>

\* Appointment.save: super().save(), the INSERT
ReqInsert(r) ==
    /\ reqs[r].pc = "cleaned"
    /\ Len(appts) < MaxAppts
    /\ appts' = Append(appts, [reqs[r].data EXCEPT !.pk = Len(appts) + 1])
    /\ reqs' = [reqs EXCEPT ![r].pc = "created"]
    /\ UNCHANGED <<visit_types, availability, last>>

----------------------------------------------------------------------------
(* Specifications *)

Next ==
    \/ \E data \in Candidates : ModelCreate(data)
    \/ \E data \in Candidates : ApiCreate(data)
    \/ \E pk \in 1..MaxAppts, st \in STATUS_CHOICES : SaveStatus(pk, st)
    \/ \E pk \in 1..MaxAppts, s \in Starts : SaveTime(pk, s)
    \/ \E pk \in 1..MaxAppts, vt \in VisitTypes : SaveVisitType(pk, vt)

\* the write operations one after another
Spec == Init /\ [][Next]_vars

\* the request bodies that carry the given fields: all of them name clinic
\* c1, and a field the body does not carry, which nothing reads, is shown
\* with the value it has in NoRequest
Bodies(fields) ==
    { c \in Candidates :
        /\ c.clinic = "c1"
        /\ \A f \in PutFields \ fields : c[f] = NoRequest.data[f] }

NextUpdate ==
    \/ \E data \in Bodies(PutFields) : ModelCreate(data)
    \/ \E pk \in 1..MaxAppts, fields \in UpdateFieldSets :
           \E data \in Bodies(fields) : ApiUpdate(pk, data, fields)

\* appointments at one clinic, created one after another and updated
\* through the API
SpecUpdate == Init /\ [][NextUpdate]_vars

NextPatients ==
    \E user \in Users, named \in PatientIds, data \in Bodies(PutFields) :
        ViewCreate(user, named, data)

\* appointments at one clinic created through the API by patient and staff
\* users
SpecPatients == Init /\ [][NextPatients]_vars

NextDuration ==
    \/ \E data \in Bodies(PutFields) : ModelCreate(data)
    \/ \E vt \in VisitTypes, minutes \in DurationChoices :
            UpdateVisitType(vt, minutes)
    \/ \E pk \in 1..MaxAppts : SaveNotes(pk)
    \/ \E pk \in 1..MaxAppts, st \in STATUS_CHOICES : SaveStatus(pk, st)
    \/ \E pk \in 1..MaxAppts, s \in Starts : SaveTime(pk, s)
    \/ \E pk \in 1..MaxAppts, vt \in VisitTypes : SaveVisitType(pk, vt)

\* appointments at one clinic created and re-saved while clinic staff
\* change the durations of the visit types
SpecDuration == Init /\ [][NextDuration]_vars

\* the slot queries issued between the writes: both doctors, one clinic
\* and an unknown one, both bookable visit types, both dates, an unparsable
\* date and a missing one
LegacyRequests ==
    { [doctor_id |-> d, clinic_id |-> c, visit_type_id |-> vt, date |-> ds] :
        d \in Doctors, c \in {"c1", "999"}, vt \in VisitTypes,
        ds \in {"2024-01-01", "2024-01-02", "invalid-date", NoParam} }

NextLegacy ==
    \/ \E data \in Bodies(PutFields) : LegacyInsert(data)
    \/ \E data \in Bodies(PutFields) : ModelCreate(data)
    \/ \E pk \in 1..MaxAppts : SaveNotes(pk)
    \/ \E GET \in LegacyRequests : GetAvailableSlots(GET)

\* a table that holds rows without end_time next to rows written by save,
\* queried for slots between the writes
SpecLegacy == Init /\ [][NextLegacy]_vars

NextCreate == \E data \in Candidates : ModelCreate(data)

\* appointments of every status created one after another and never edited:
\* the tables the slot view is queried against
SpecCreate == Init /\ [][NextCreate]_vars

NextConcurrent ==
    \/ \E r \in 1..MaxAppts, data \in Candidates : ReqValidate(r, data)
    \/ \E r \in 1..MaxAppts : ReqFullClean(r)
    \/ \E r \in 1..MaxAppts : ReqInsert(r)

\* create requests whose steps interleave
SpecConcurrent == Init /\ [][NextConcurrent]_vars

----------------------------------------------------------------------------
(* Vocabulary of the properties *)

\* half-open intervals [s1, e1) and [s2, e2) overlap
IntervalsOverlap(s1, e1, s2, e2) == s1 < e2 /\ s2 < e1

\* the resolved end of a create request
ResolvedEnd(c) == c.scheduled_time + visit_types[c.visit_type]

\* the persisted 'scheduled' rows of a doctor
ScheduledOf(d) == { a \in Rows(appts) : a.doctor = d /\ a.status = "scheduled" }

\* some 'scheduled' row of the doctor overlaps [s, e)
Blocked(d, s, e) ==
    \E a \in ScheduledOf(d) :
        IntervalsOverlap(a.scheduled_time, a.end_time, s, e)

\* the start time a returned HH:MM string names on the queried date
ParseHM(date, str) ==
    Combine(date, (str[1] * 10 + str[2]) * 60 + str[3] * 10 + str[4])

Queries ==
    { [doctor |-> d, clinic |-> c, visit_type |-> vt, date |-> dt] :
        d \in Doctors, c \in Clinics, vt \in AllVisitTypes, dt \in Dates }

\* the start times the response to a query lists
Offered(q, db) ==
    LET res == AvailableSlots(q.doctor, q.clinic, q.visit_type, q.date,
                              db, visit_types, availability)
    IN  { ParseHM(q.date, res[i]) : i \in 1..Len(res) }

\* the 15-minute grid of a window, as far as visits of the duration fit
GridFits(q, w) ==
    { t \in Combine(q.date, w.start_time)..Combine(q.date, w.end_time) :
        /\ (t - Combine(q.date, w.start_time)) % 15 = 0
        /\ t + visit_types[q.visit_type] <= Combine(q.date, w.end_time) }

Touches(a, s, e) == a.end_time = s \/ a.scheduled_time = e

----------------------------------------------------------------------------
(* C1 - C10 *)

\* C1: after any sequence of sequential writes (create, re-save with a
\* changed status, scheduled_time or visit_type), any two distinct persisted
\* 'scheduled' appointments of one doctor have non-overlapping half-open
\* intervals [scheduled_time, end_time).
C1_NoDoubleBooking ==
    \A i, j \in 1..Len(appts) :
        ( /\ i # j
          /\ appts[i].doctor = appts[j].doctor
          /\ appts[i].status = "scheduled"
          /\ appts[j].status = "scheduled" )
        => ~IntervalsOverlap(appts[i].scheduled_time, appts[i].end_time,
                             appts[j].scheduled_time, appts[j].end_time)

\* two 'scheduled' rows of one doctor stand side by side after a re-save
C1_Witness ==
    /\ Len(appts) = 2
    /\ last = [op |-> "save", ok |-> TRUE]
    /\ appts[1].doctor = appts[2].doctor
    /\ appts[1].status = "scheduled"
    /\ appts[2].status = "scheduled"
    /\ appts[1].scheduled_time < appts[2].scheduled_time

\* C2: when two create requests for the same doctor with overlapping
\* intervals are served concurrently, at most one of them succeeds: no
\* interleaving of their validate and insert steps leaves two overlapping
\* 'scheduled' appointments of that doctor.
C2_AtMostOneWinner ==
    \A r1, r2 \in 1..MaxAppts :
        ( /\ r1 # r2
          /\ reqs[r1].pc = "created"
          /\ reqs[r2].pc = "created"
          /\ reqs[r1].data.doctor = reqs[r2].data.doctor
          /\ reqs[r1].data.status = "scheduled"
          /\ reqs[r2].data.status = "scheduled" )
        => ~IntervalsOverlap(
               reqs[r1].data.scheduled_time, reqs[r1].data.end_time,
               reqs[r2].data.scheduled_time, reqs[r2].data.end_time)

\* C3: for every new booking candidate and every persisted table, clean
\* reports a conflict if and only if some persisted 'scheduled' appointment
\* of the candidate's doctor has s' < e and s < e'.
C3_ConflictIffOverlap ==
    \A c \in Candidates :
        CleanRaises(c, appts, visit_types)
            <=> Blocked(c.doctor, c.scheduled_time, ResolvedEnd(c))

\* a create was just rejected against a non-empty table
C3_Witness ==
    /\ last = [op |-> "create", ok |-> FALSE]
    /\ \E c \in Candidates : Blocked(c.doctor, c.scheduled_time, ResolvedEnd(c))
    /\ \E c \in Candidates : ~Blocked(c.doctor, c.scheduled_time, ResolvedEnd(c))

\* C4: touching intervals do not conflict: a booking that starts at the end
\* of a 'scheduled' appointment of its doctor, or ends at the start of one,
\* and overlaps none, is accepted and persisted by the write path, and such
\* a start time on the window's grid is listed by available_slots.
C4_TouchingAccepted ==
    /\ \A c \in Candidates :
         ( /\ \E a \in ScheduledOf(c.doctor) :
                  Touches(a, c.scheduled_time, ResolvedEnd(c))
           /\ ~Blocked(c.doctor, c.scheduled_time, ResolvedEnd(c)) )
         => LET r == Save(c, appts, visit_types)
            IN  /\ r.ok
                /\ Len(r.db) = Len(appts) + 1
                /\ r.db[r.pk].scheduled_time = c.scheduled_time
    /\ \A q \in Queries :
         \A w \in WindowsFor(q.doctor, q.clinic, q.date, availability) :
           \A t \in GridFits(q, w) :
             ( /\ \E a \in ScheduledOf(q.doctor) :
                      Touches(a, t, t + visit_types[q.visit_type])
               /\ ~Blocked(q.doctor, t, t + visit_types[q.visit_type]) )
             => t \in Offered(q, appts)

\* a booking that starts where an earlier one ends was just created, and
\* its start time was on offer next to the earlier one
C4_Witness ==
    /\ Len(appts) = 2
    /\ last = [op |-> "create", ok |-> TRUE]
    /\ appts[1].doctor = "d1" /\ appts[2].doctor = "d1"
    /\ appts[1].status = "scheduled" /\ appts[2].status = "scheduled"
    /\ appts[1].scheduled_time = At(1, 0, 0)
    /\ appts[2].scheduled_time = appts[1].end_time
    /\ appts[2].scheduled_time \in
         Offered([doctor |-> "d1", clinic |-> "c1",
                  visit_type |-> appts[2].visit_type, date |-> 1],
                 SubSeq(appts, 1, 1))

\* C5: an appointment with status cancelled, completed or no_show never
\* blocks a booking: a new 'scheduled' booking of its doctor at the
\* identical interval is accepted, provided no 'scheduled' appointment of
\* that doctor overlaps it.
C5_InactiveNeverBlocks ==
    \A a \in Rows(appts) :
        a.status # "scheduled" =>
            \A c \in Candidates :
                ( /\ c.doctor = a.doctor
                  /\ c.status = "scheduled"
                  /\ c.scheduled_time = a.scheduled_time
                  /\ ResolvedEnd(c) = a.end_time
                  /\ ~Blocked(c.doctor, c.scheduled_time, ResolvedEnd(c)) )
                => Save(c, appts, visit_types).ok

\* the identical interval was booked again after the first appointment
\* left 'scheduled'
C5_Witness ==
    /\ Len(appts) = 2
    /\ last = [op |-> "create", ok |-> TRUE]
    /\ appts[1].status \in {"cancelled", "completed"}
    /\ appts[2].status = "scheduled"
    /\ appts[1].doctor = appts[2].doctor
    /\ appts[1].scheduled_time = appts[2].scheduled_time
    /\ appts[1].end_time = appts[2].end_time

\* the rows of the table that belong to one doctor
OfDoctor(d) == SelectSeq(appts, LAMBDA a : a.doctor = d)

\* C6: doctor isolation: the appointments of other doctors never cause a
\* booking to be rejected, and never remove a start time from the doctor's
\* available_slots result.
C6_DoctorIsolation ==
    /\ \A c \in Candidates :
         CleanRaises(c, appts, visit_types)
             <=> CleanRaises(c, OfDoctor(c.doctor), visit_types)
    /\ \A q \in Queries :
         Offered(q, appts) = Offered(q, OfDoctor(q.doctor))

\* two doctors hold 'scheduled' appointments at the identical interval,
\* the second just booked, and the second doctor's slots ignore the first's
C6_Witness ==
    /\ Len(appts) = 2
    /\ last = [op |-> "create", ok |-> TRUE]
    /\ appts[1].doctor = "d1" /\ appts[2].doctor = "d2"
    /\ appts[1].status = "scheduled" /\ appts[2].status = "scheduled"
    /\ appts[1].scheduled_time = At(1, 0, 0)
    /\ appts[2].scheduled_time = At(1, 0, 0)
    /\ appts[1].end_time = appts[2].end_time
    /\ At(1, 0, 0) \in
         Offered([doctor |-> "d2", clinic |-> "c1",
                  visit_type |-> "consultation", date |-> 1],
                 SubSeq(appts, 1, 1))

\* the rows of the table that belong to one clinic
AtClinic(c) == SelectSeq(appts, LAMBDA a : a.clinic = c)

\* C7 as stated: a doctor's bookings at different clinics do not block each
\* other: appointments at another clinic neither cause a booking to be
\* rejected nor remove a start time from the available_slots result.
C7_ClinicsDoNotBlock ==
    /\ \A c \in Candidates :
         CleanRaises(c, appts, visit_types)
             <=> CleanRaises(c, AtClinic(c.clinic), visit_types)
    /\ \A q \in Queries :
         Offered(q, appts) = Offered(q, AtClinic(q.clinic))

\* C7 amended: a doctor's bookings at different clinics block each other
\* as bookings at one clinic do: a 'scheduled' appointment of doctor d at
\* clinic c1 causes every time-overlapping booking for d at another clinic
\* to be rejected, and no start time whose interval overlaps it is listed
\* for (d, another clinic) on the appointment's calendar date.
C7_ClinicsBlock ==
    \A a \in Rows(appts) :
        a.status = "scheduled" =>
            /\ \A c \in Candidates :
                 ( /\ c.doctor = a.doctor
                   /\ c.clinic # a.clinic
                   /\ IntervalsOverlap(a.scheduled_time, a.end_time,
                                       c.scheduled_time, ResolvedEnd(c)) )
                 => ~Save(c, appts, visit_types).ok
            /\ \A q \in Queries :
                 ( /\ q.doctor = a.doctor
                   /\ q.clinic # a.clinic
                   /\ q.date = DateOf(a.scheduled_time) )
                 => \A t \in Offered(q, appts) :
                      ~IntervalsOverlap(a.scheduled_time, a.end_time,
                                        t, t + visit_types[q.visit_type])

\* the only appointment is d1's at clinic c1, a create was just rejected,
\* and midnight, inside d1's window at clinic c2, is not on offer there
C7_Witness ==
    /\ Len(appts) = 1
    /\ last = [op |-> "create", ok |-> FALSE]
    /\ appts[1].doctor = "d1"
    /\ appts[1].clinic = "c1"
    /\ appts[1].status = "scheduled"
    /\ appts[1].scheduled_time = At(1, 0, 0)
    /\ At(1, 0, 0) \notin
         Offered([doctor |-> "d1", clinic |-> "c2",
                  visit_type |-> "consultation", date |-> 1], appts)
    /\ At(1, 0, 0) \in
         Offered([doctor |-> "d1", clinic |-> "c2",
                  visit_type |-> "consultation", date |-> 1], <<>>)

\* C8: every appointment created without an explicit end is persisted with
\* end_time = scheduled_time + visit_type.duration_minutes.
C8_EndTimeResolved ==
    (last = [op |-> "create", ok |-> TRUE]) =>
        /\ Len(appts) >= 1
        /\ appts[Len(appts)].pk = Len(appts)
        /\ appts[Len(appts)].end_time =
             appts[Len(appts)].scheduled_time
               + visit_types[appts[Len(appts)].visit_type]

\* appointments of both durations were just created
C8_Witness ==
    /\ Len(appts) = 2
    /\ last = [op |-> "create", ok |-> TRUE]
    /\ appts[1].visit_type = "consultation"
    /\ appts[2].visit_type = "procedure"
    /\ appts[2].end_time = appts[2].scheduled_time + 45

\* C9: every start time t returned by available_slots satisfies
\* window_start <= t and t + duration <= window_end; a start time on the
\* grid whose visit ends exactly at window_end is offered when no
\* 'scheduled' appointment of the doctor overlaps it.
C9_SlotsInsideWindow ==
    \A q \in Queries :
        \A w \in WindowsFor(q.doctor, q.clinic, q.date, availability) :
             /\ \A t \in Offered(q, appts) :
                  /\ Combine(q.date, w.start_time) <= t
                  /\ t + visit_types[q.visit_type]
                       <= Combine(q.date, w.end_time)
             /\ \A t \in GridFits(q, w) :
                  ( /\ t + visit_types[q.visit_type]
                         = Combine(q.date, w.end_time)
                    /\ ~Blocked(q.doctor, t, t + visit_types[q.visit_type]) )
                  => t \in Offered(q, appts)

\* with an appointment of d1 on day 1, the 45-minute start 00:15, ending at
\* the window's end 01:00, is on offer, and d1's other window has a grid
\* start (00:45) that no 15-minute query is offered
C9_Witness ==
    /\ Len(appts) >= 1
    /\ appts[1].doctor = "d1"
    /\ appts[1].status = "scheduled"
    /\ appts[1].scheduled_time = At(1, 0, 0)
    /\ appts[1].end_time = At(1, 0, 15)
    /\ At(1, 0, 15) \in
         Offered([doctor |-> "d1", clinic |-> "c1",
                  visit_type |-> "procedure", date |-> 1], appts)
    /\ At(1, 0, 30) \in
         Offered([doctor |-> "d1", clinic |-> "c2",
                  visit_type |-> "consultation", date |-> 1], appts)
    /\ At(1, 0, 45) \notin
         Offered([doctor |-> "d1", clinic |-> "c2",
                  visit_type |-> "consultation", date |-> 1], appts)

\* C10: no start time t returned by available_slots yields an interval
\* [t, t + duration) that overlaps the interval of a persisted 'scheduled'
\* appointment of the doctor, whatever calendar date its scheduled_time
\* falls on.
C10_OfferedSlotsFree ==
    \A q \in Queries :
        \A t \in Offered(q, appts) :
            ~Blocked(q.doctor, t, t + visit_types[q.visit_type])

----------------------------------------------------------------------------
(* C11 - C20 *)

\* the rows of the table whose status is 'scheduled'
OnlyScheduled == SelectSeq(appts, LAMBDA a : a.status = "scheduled")

\* C11: available_slots is complete on its grid: every start time
\* t = window_start + 15*k (k >= 0) with t + duration <= window_end whose
\* interval [t, t + duration) overlaps no 'scheduled' appointment of the
\* doctor is in the returned list; appointments with status cancelled,
\* completed or no_show never remove a start time.
C11_SlotsComplete ==
    \A q \in Queries :
        LET offered == Offered(q, appts)
        IN  /\ \A w \in WindowsFor(q.doctor, q.clinic, q.date, availability) :
                 \A t \in GridFits(q, w) :
                     ~Blocked(q.doctor, t, t + visit_types[q.visit_type])
                         => t \in offered
            /\ offered = Offered(q, OnlyScheduled)

\* d1 has a cancelled appointment at midnight of day 1 and a 'scheduled'
\* one at 23:45 of day 0; every grid start of day 1 is on offer, midnight
\* included, and 23:30 of day 0, free for 15 minutes, is on offer too
C11_Witness ==
    /\ Len(appts) = 2
    /\ \E i, j \in 1..2 :
         /\ appts[i].doctor = "d1" /\ appts[j].doctor = "d1"
         /\ appts[i].status = "cancelled"
         /\ appts[i].scheduled_time = At(1, 0, 0)
         /\ appts[i].end_time = At(1, 0, 15)
         /\ appts[j].status = "scheduled"
         /\ appts[j].scheduled_time = At(0, 23, 45)
         /\ appts[j].end_time = At(1, 0, 0)
    /\ Offered([doctor |-> "d1", clinic |-> "c1",
                visit_type |-> "consultation", date |-> 1], appts)
         = {At(1, 0, 0), At(1, 0, 15), At(1, 0, 30), At(1, 0, 45)}
    /\ Offered([doctor |-> "d1", clinic |-> "c1",
                visit_type |-> "consultation", date |-> 0], appts)
         = {At(0, 23, 30)}

\* C12: every start time returned by available_slots lies on the 15-minute
\* grid anchored at the availability window's start: t - window_start is a
\* non-negative multiple of 15 minutes, for every visit-type duration
\* (15, 20 and 45 minutes here) and for a window that starts off the
\* quarter hour.
C12_SlotsOnGrid ==
    \A q \in Queries :
        \A w \in WindowsFor(q.doctor, q.clinic, q.date, availability) :
            \A t \in Offered(q, appts) :
                /\ t - Combine(q.date, w.start_time) >= 0
                /\ (t - Combine(q.date, w.start_time)) % 15 = 0

\* d2 has an appointment at 23:45 of day 0; in the window that starts at
\* 23:05 the 20-minute starts on offer are 23:05 and 23:20, and of the
\* 20-minute starts of d1's day-1 window 00:15 is on offer
C12_Witness ==
    /\ Len(appts) >= 1
    /\ appts[1].doctor = "d2"
    /\ appts[1].status = "scheduled"
    /\ appts[1].scheduled_time = At(0, 23, 45)
    /\ appts[1].end_time = At(1, 0, 0)
    /\ Offered([doctor |-> "d2", clinic |-> "c2",
                visit_type |-> "followup", date |-> 0], appts)
         = {At(0, 23, 5), At(0, 23, 20)}
    /\ At(1, 0, 15) \in
         Offered([doctor |-> "d1", clinic |-> "c1",
                  visit_type |-> "followup", date |-> 1], appts)

\* the "available_slots" list of the response to a query
SlotList(q) ==
    AvailableSlots(q.doctor, q.clinic, q.visit_type, q.date,
                   appts, visit_types, availability)

\* four decimal digits HH MM of a 24-hour wall-clock time
IsHHMM(str) ==
    /\ Len(str) = 4
    /\ \A k \in 1..4 : str[k] \in 0..9
    /\ str[1] * 10 + str[2] <= 23
    /\ str[3] * 10 + str[4] <= 59

\* C13: the list returned by available_slots is in strictly ascending
\* time order, so it holds no start time twice, and each entry is a
\* zero-padded 24-hour HH:MM string.
C13_SlotsAscending ==
    \A q \in Queries :
        LET res == SlotList(q)
        IN  /\ \A i \in 1..Len(res) : IsHHMM(res[i])
            /\ \A i, j \in 1..Len(res) :
                 i < j => ParseHM(q.date, res[i]) < ParseHM(q.date, res[j])

\* with d1 booked for the first quarter hour of day 1, the 15-minute list
\* of that day is 00:15, 00:30, 00:45
C13_Witness ==
    /\ Len(appts) >= 1
    /\ appts[1].doctor = "d1"
    /\ appts[1].status = "scheduled"
    /\ appts[1].scheduled_time = At(1, 0, 0)
    /\ appts[1].end_time = At(1, 0, 15)
    /\ SlotList([doctor |-> "d1", clinic |-> "c1",
                 visit_type |-> "consultation", date |-> 1])
         = << <<0, 0, 1, 5>>, <<0, 0, 3, 0>>, <<0, 0, 4, 5>> >>

\* the values a slot request gives its parameters: ids of existing records,
\* an id of no record, an empty value, no value; dates in the format with
\* and without padding, a string that is no date, a day that does not exist
DoctorIds == Doctors \cup {"999", NoParam}

ClinicIds == Clinics \cup {"999", NoParam}

VisitTypeIds == AllVisitTypes \cup {"999", NoParam}

DateStrings ==
    {"2024-01-01", "2024-01-02", "2024-1-2", "invalid-date", "2024-02-30",
     "", NoParam}

SlotRequests ==
    { [doctor_id |-> d, clinic_id |-> c, visit_type_id |-> vt, date |-> ds] :
        d \in DoctorIds, c \in ClinicIds, vt \in VisitTypeIds,
        ds \in DateStrings }

\* all four parameters are present, the date parses and the ids resolve
Resolvable(GET) ==
    /\ GET.doctor_id \in Doctors
    /\ GET.clinic_id \in Clinics
    /\ GET.visit_type_id \in DOMAIN visit_types
    /\ GET.date \in {"2024-01-01", "2024-01-02", "2024-1-2"}

Respond(GET) == AvailableSlotsResponse(GET, appts, visit_types, availability)

\* C14: a slot query with all four parameters valid and resolvable, for a
\* doctor who has no availability window for (doctor, clinic, weekday of
\* date), returns a success response whose available_slots is the empty
\* list, whatever appointments exist; it is never an error.
C14_NoWindowEmptySuccess ==
    \A GET \in SlotRequests :
        ( /\ Resolvable(GET)
          /\ WindowsFor(GET.doctor_id, GET.clinic_id, Strptime(GET.date),
                        availability) = {} )
        => LET response == Respond(GET)
           IN  /\ response.status = "HTTP_200_OK"
               /\ "error" \notin DOMAIN response
               /\ response.available_slots = <<>>

\* d2 holds two 'scheduled' appointments at clinic c1, where the doctor has
\* no window on day 0: the query for that day is answered with the empty
\* list, the query for day 1, where a window exists, with a list
C14_Witness ==
    /\ Len(appts) = 2
    /\ \A i \in 1..2 : /\ appts[i].doctor = "d2"
                        /\ appts[i].clinic = "c1"
                        /\ appts[i].status = "scheduled"
    /\ Respond([doctor_id |-> "d2", clinic_id |-> "c1",
                visit_type_id |-> "consultation", date |-> "2024-01-01"])
         = [status |-> "HTTP_200_OK", available_slots |-> <<>>]
    /\ Len(Respond([doctor_id |-> "d2", clinic_id |-> "c1",
                    visit_type_id |-> "consultation",
                    date |-> "2024-01-02"]).available_slots) > 0

NamesNoRecord(GET) ==
    /\ \A k \in DOMAIN GET : GET[k] \notin {NoParam, ""}
    /\ Strptime(GET.date) # None
    /\ \/ GET.doctor_id \notin Doctors
       \/ GET.clinic_id \notin Clinics
       \/ GET.visit_type_id \notin DOMAIN visit_types

\* the request lacks a parameter or its date does not parse
MalformedInput(GET) ==
    \/ \E k \in DOMAIN GET : GET[k] \in {NoParam, ""}
    \/ Strptime(GET.date) = None

\* the message of the DoesNotExist raised by the first get() that fails
DoesNotExistMessage(GET) ==
    IF GET.doctor_id \notin Doctors
    THEN "Doctor matching query does not exist."
    ELSE IF GET.clinic_id \notin Clinics
    THEN "Clinic matching query does not exist."
    ELSE "VisitType matching query does not exist."

\* C16 as stated: a slot query that references a non-existent doctor,
\* clinic or visit type is rejected with error kind NotFound, a kind that
\* differs from the InvalidInput kind returned for an unparseable date or
\* a missing parameter; the kind of a response is its HTTP status.
C16_NotFoundDistinct ==
    \A nf, inv \in SlotRequests :
        (NamesNoRecord(nf) /\ MalformedInput(inv))
        => Respond(nf).status # Respond(inv).status

\* C16 amended: a slot query that references a non-existent doctor, clinic
\* or visit type is rejected with HTTP 400 and a body that holds only the
\* message of the lookup that failed, the status and body shape of the
\* rejection of an unparseable date or a missing parameter: the two kinds
\* of rejection differ in the message text alone.
C16_SameBadRequest ==
    \A GET \in SlotRequests :
        LET response == Respond(GET)
        IN  /\ NamesNoRecord(GET)
               => response = [status |-> "HTTP_400_BAD_REQUEST",
                              error |-> DoesNotExistMessage(GET)]
            /\ MalformedInput(GET)
               => /\ response.status = "HTTP_400_BAD_REQUEST"
                  /\ DOMAIN response = {"status", "error"}
                  /\ response.error \in
                       {"Missing required parameters",
                        "time data does not match format '%Y-%m-%d'"}

\* with an appointment of d1 in the table, a query for an unknown doctor
\* and a query for a day that does not exist are both answered 400, with
\* different messages
C16_Witness ==
    /\ Len(appts) >= 1
    /\ appts[1].doctor = "d1"
    /\ appts[1].status = "scheduled"
    /\ Respond([doctor_id |-> "999", clinic_id |-> "c1",
                visit_type_id |-> "consultation", date |-> "2024-01-02"])
         = [status |-> "HTTP_400_BAD_REQUEST",
            error |-> "Doctor matching query does not exist."]
    /\ Respond([doctor_id |-> "d1", clinic_id |-> "c1",
                visit_type_id |-> "consultation", date |-> "2024-02-30"])
         = [status |-> "HTTP_400_BAD_REQUEST",
            error |-> "time data does not match format '%Y-%m-%d'"]

\* the instances the write path validates: new bookings, and persisted
\* appointments loaded and changed in status, scheduled_time and visit type
Validated ==
    Candidates \cup
    { [appts[pk] EXCEPT !.status = st, !.scheduled_time = s,
                        !.visit_type = vt] :
        pk \in 1..Len(appts), st \in STATUS_CHOICES, s \in Starts,
        vt \in VisitTypes }

\* the end of the interval an instance is validated with
IntervalEnd(x) ==
    IF x.end_time = None THEN x.scheduled_time + visit_types[x.visit_type]
    ELSE x.end_time

\* the persisted 'scheduled' appointments of x's doctor, other than x, that
\* overlap x's interval
Blockers(x) ==
    { a \in ScheduledOf(x.doctor) :
        /\ a.pk # x.pk
        /\ IntervalsOverlap(a.scheduled_time, a.end_time,
                            x.scheduled_time, IntervalEnd(x)) }

\* C17: whenever the write path rejects a booking for overlap, the error
\* names the start and end of a persisted 'scheduled' appointment of the
\* same doctor that overlaps the candidate interval, one of earliest
\* scheduled_time among the overlapping ones.
C17_ErrorNamesBlocker ==
    \A x \in Validated :
        CleanRaises(x, appts, visit_types)
        => /\ CleanMessage(x, appts, visit_types) # {}
           /\ \A m \in CleanMessage(x, appts, visit_types) :
                \E a \in Blockers(x) :
                    /\ m = <<a.scheduled_time, a.end_time>>
                    /\ \A b \in Blockers(x) :
                         a.scheduled_time <= b.scheduled_time

\* d1 is booked 23:45-00:00 and from 00:00 on; a 45-minute booking of d1
\* at 23:45 overlaps both and is rejected naming 23:45-00:00
C17_Witness ==
    /\ Len(appts) = 2
    /\ \A i \in 1..2 : appts[i].doctor = "d1" /\ appts[i].status = "scheduled"
    /\ appts[1].scheduled_time = At(1, 0, 0)
    /\ appts[2].scheduled_time = At(0, 23, 45)
    /\ appts[2].end_time = At(1, 0, 0)
    /\ LET x == Appointment("d1", "c2", "procedure", At(0, 23, 45),
                            "scheduled")
       IN  /\ Cardinality(Blockers(x)) = 2
           /\ ~Save(x, appts, visit_types).ok
           /\ CleanMessage(x, appts, visit_types)
                = { <<At(0, 23, 45), At(1, 0, 0)>> }

\* C18: a booking request rejected for overlap leaves the persisted set of
\* appointments unchanged: no appointment is added and no field of an
\* existing appointment is modified.  Every write operation records its
\* outcome in last, so a step that ends with last.ok false is a rejected
\* create or re-save.
C18_RejectedWritesNothing ==
    [][ (~last'.ok) => appts' = appts ]_vars

\* a create was just rejected by the 23:45-00:00 appointment of d1, the
\* only row of the table
C18_Witness ==
    /\ last = [op |-> "create", ok |-> FALSE]
    /\ Len(appts) = 1
    /\ appts[1] = [pk |-> 1, doctor |-> "d1", clinic |-> "c1",
                   visit_type |-> "consultation",
                   scheduled_time |-> At(0, 23, 45),
                   end_time |-> At(1, 0, 0), status |-> "scheduled"]

\* the body of a PUT that repeats the appointment's own values
OwnData(a) ==
    Appointment(a.doctor, a.clinic, a.visit_type, a.scheduled_time, a.status)

\* C19: re-validating a persisted 'scheduled' appointment whose doctor and
\* times are unchanged never reports a conflict with its own persisted
\* record: neither Appointment.save on the loaded instance, nor the
\* validation of a PUT through AppointmentSerializer that repeats its
\* values, finds the appointment's own row among the overlapping ones.
C19_NoSelfConflict ==
    \A pk \in 1..Len(appts) :
        appts[pk].status = "scheduled"
        => /\ appts[pk] \notin
                Overlapping(CalculateEndTime(appts[pk], visit_types), appts)
           /\ appts[pk] \notin
                Overlapping(CalculateEndTime(OwnData(appts[pk]), visit_types),
                            appts)

\* C20: the status of an appointment only moves away from 'scheduled':
\* once a persisted appointment has status completed, cancelled or
\* no_show, no later save or API update brings it back to 'scheduled'.
C20_NoReturnToScheduled ==
    [][ \A pk \in 1..Len(appts) :
            appts[pk].status # "scheduled"
            => appts'[pk].status # "scheduled" ]_vars

----------------------------------------------------------------------------
(* C21 - C30 *)

\* the start of the appointment lies in an availability window of its
\* doctor at its clinic on its weekday: window_start <= start < window_end
InsideAvailability(a) ==
    \E w \in WindowsFor(a.doctor, a.clinic, DateOf(a.scheduled_time),
                        availability) :
        /\ Combine(DateOf(a.scheduled_time), w.start_time) <= a.scheduled_time
        /\ a.scheduled_time < Combine(DateOf(a.scheduled_time), w.end_time)

\* C21: appointments can only be scheduled during the doctor's
\* availability: a booking whose start is before the window's start, at or
\* after its end, or on a weekday without a window is rejected by the write
\* path, so an appointment that was just created lies inside a window.
C21_BookedInsideAvailability ==
    (last = [op |-> "create", ok |-> TRUE])
        => InsideAvailability(appts[Len(appts)])

\* C22: when an authenticated patient user creates an appointment through
\* POST /api/appointments/, the persisted appointment's patient is that
\* user's own patient record: an omitted patient field is auto-assigned,
\* and a request naming a different patient is rejected with 403 without
\* creating an appointment; a staff user may name any patient.
C22_PatientIsOwnRecord ==
    [][ (last'.op = "post") =>
          LET own == UserPatient(last'.user)
              named == last'.patient
          IN  /\ (own # NoParam /\ named \notin {NoParam, own})
                    => /\ last'.status = "HTTP_403_FORBIDDEN"
                       /\ appts' = appts
              /\ (own # NoParam /\ named \in {NoParam, own})
                    => last'.status # "HTTP_403_FORBIDDEN"
              /\ (own = NoParam) => last'.status # "HTTP_403_FORBIDDEN"
              /\ (last'.status = "HTTP_201_CREATED")
                    => /\ Len(appts') = Len(appts) + 1
                       /\ appts'[Len(appts')].patient =
                            (IF own # NoParam THEN own ELSE named)
                       /\ appts'[Len(appts')].patient \in Patients
              /\ (last'.status # "HTTP_201_CREATED") => appts' = appts
      ]_vars

\* the staff user booked for patient p2, then the user of patient p1
\* booked without naming a patient and the appointment is p1's
C22_Witness ==
    /\ Len(appts) = 2
    /\ appts[1].patient = "p2"
    /\ appts[2].patient = "p1"
    /\ last = [op |-> "post", ok |-> TRUE, user |-> "patient_user_1",
               patient |-> NoParam, status |-> "HTTP_201_CREATED"]

\* C23: the conflict check fails whenever it is run on a candidate interval
\* with start >= end (scheduled_time >= end_time): such an instance is never
\* accepted and persisted by the write path.
C23_InvalidIntervalRejected ==
    \A x \in Validated :
        (x.scheduled_time >= IntervalEnd(x))
        => ~Save(x, appts, visit_types).ok

\* C24: the slot enumerator and the write path agree in every reachable
\* state: each start time available_slots returns for (doctor, clinic,
\* visit type, date) is accepted by the write path when booked for that
\* doctor and visit type on the same table, and each 15-minute grid start
\* that fits the window but is not in the list is rejected by it.
C24_SlotsAgreeWithWritePath ==
    \A q \in Queries :
        LET offered == Offered(q, appts)
            accepted(t) ==
                Save(Appointment(q.doctor, q.clinic, q.visit_type, t,
                                 "scheduled"), appts, visit_types).ok
        IN  /\ \A t \in offered : accepted(t)
            /\ \A w \in WindowsFor(q.doctor, q.clinic, q.date, availability) :
                  \A t \in GridFits(q, w) \ offered : ~accepted(t)

\* C25: after any sequence of creates and saves, including a save that
\* changes the scheduled_time of an existing appointment, every persisted
\* appointment has a non-null end_time, and end_time - scheduled_time is the
\* duration of a visit type, the one it was created with, hence
\* scheduled_time < end_time.
C25_EndIsStartPlusDuration ==
    \A i \in 1..Len(appts) :
        /\ appts[i].end_time # None
        /\ appts[i].scheduled_time < appts[i].end_time
        /\ \E vt \in VisitTypes :
             appts[i].end_time - appts[i].scheduled_time = InitVisitTypes[vt]

\* C26: the duration of an appointment is fixed at creation: changing the
\* duration_minutes of its visit type afterwards, followed by any re-save
\* of the appointment (unchanged, or with a changed status, scheduled_time
\* or visit type), leaves the persisted end_time of every appointment as it
\* was.
C26_DurationFixedAtCreation ==
    [][ \A i \in 1..Len(appts) :
            /\ i <= Len(appts')
            /\ appts'[i].end_time = appts[i].end_time ]_vars

\* a consultation was created 23:45-00:00 when consultations took 15
\* minutes; they now take 30, the appointment was re-saved after the change
\* and still ends at 00:00
C26_Witness ==
    /\ visit_types["consultation"] = 30
    /\ last = [op |-> "save", ok |-> TRUE]
    /\ Len(appts) = 1
    /\ appts[1].visit_type = "consultation"
    /\ appts[1].scheduled_time = At(0, 23, 45)
    /\ appts[1].end_time = At(1, 0, 0)

\* C27: an appointment whose own status is cancelled, completed or no_show
\* is inert for the overlap check: saving it (creating it, or re-saving it
\* with a non-scheduled status) is never rejected for overlap, even when a
\* 'scheduled' appointment of the same doctor occupies an overlapping
\* interval.
C27_NonScheduledSaveAccepted ==
    \A x \in Validated :
        (x.status # "scheduled") => Save(x, appts, visit_types).ok

\* C28: a persisted 'scheduled' appointment whose end_time is absent is
\* treated in every conflict check as occupying
\* [scheduled_time, scheduled_time + visit_type.duration_minutes): no start
\* time available_slots returns for its doctor overlaps that interval, and
\* every instance of its doctor whose interval overlaps it is rejected by
\* Appointment.clean.
C28_AbsentEndRecomputed ==
    \A i \in 1..Len(appts) :
        (appts[i].status = "scheduled" /\ appts[i].end_time = None)
        => LET a == appts[i]
               e == a.scheduled_time + visit_types[a.visit_type]
           IN  /\ \A q \in Queries :
                     (q.doctor = a.doctor)
                     => \A t \in Offered(q, appts) :
                          ~IntervalsOverlap(a.scheduled_time, e, t,
                                            t + visit_types[q.visit_type])
               /\ \A x \in Validated :
                     ( /\ x.doctor = a.doctor
                       /\ x.pk # a.pk
                       /\ IntervalsOverlap(a.scheduled_time, e,
                                           x.scheduled_time, IntervalEnd(x)) )
                     => CleanRaises(x, appts, visit_types)

\* C29: available_slots is read-only: the persisted appointments (the
\* end_time of a row that the view computes in memory included), the
\* visit types and the availability windows are the same after the call
\* as before it, whatever the response.
C29_SlotsReadOnly ==
    [][ (last'.op = "slots")
          => /\ appts' = appts
             /\ visit_types' = visit_types
             /\ availability' = availability ]_vars

\* the slots of d1 at c1 on day 1 were just listed; d1 has a row at 00:00
\* without end_time, for which the view computed 00:15: 00:00 is not
\* offered, and the row still has no end_time
C29_Witness ==
    /\ last.op = "slots"
    /\ last.GET = [doctor_id |-> "d1", clinic_id |-> "c1",
                   visit_type_id |-> "consultation", date |-> "2024-01-02"]
    /\ last.response.status = "HTTP_200_OK"
    /\ Len(appts) = 1
    /\ appts[1].doctor = "d1"
    /\ appts[1].visit_type = "consultation"
    /\ appts[1].scheduled_time = At(1, 0, 0)
    /\ appts[1].end_time = None
    /\ last.response.available_slots =
         << <<0, 0, 1, 5>>, <<0, 0, 3, 0>>, <<0, 0, 4, 5>> >>

\* the request of a query whose parameters resolve
RequestOf(q) ==
    [doctor_id |-> q.doctor, clinic_id |-> q.clinic,
     visit_type_id |-> q.visit_type,
     date |-> IF q.date = 0 THEN "2024-01-01" ELSE "2024-01-02"]

\* C30: the candidate walk of available_slots terminates for every
\* availability window and every visit-type duration: after finitely many
\* iterations n the next start, window_start + 15*n, has t + duration past
\* window_end, and every start before it fitted; n is zero, and the
\* response a success with an empty list, when the duration is longer than
\* the window or the window's start is not before its end.
C30_WalkTerminates ==
    \A q \in Queries :
        \A w \in WindowsFor(q.doctor, q.clinic, q.date, availability) :
            LET ws == Combine(q.date, w.start_time)
                we == Combine(q.date, w.end_time)
                dur == visit_types[q.visit_type]
                n == WalkIterations(ws, we, dur)
                response == Respond(RequestOf(q))
            IN  /\ n >= 0
                /\ ws + 15 * n + dur > we
                /\ \A k \in 0..(n - 1) : ws + 15 * k + dur <= we
                /\ Len(SlotList(q)) <= n
                /\ response.status = "HTTP_200_OK"
                /\ (dur > we - ws \/ ws >= we)
                     => /\ n = 0
                        /\ response.available_slots = <<>>

\* on a table with an appointment: a 45-minute visit does not fit d1's
\* 23:30-23:59 window and d2's window at c2 on day 1 ends before it
\* starts, so both walks make no iteration and the lists are empty; the
\* walk of d1's 00:00-01:00 window makes four iterations for 15 minutes
C30_Witness ==
    /\ Len(appts) >= 1
    /\ WalkIterations(At(0, 23, 30), At(0, 23, 59),
                      visit_types["procedure"]) = 0
    /\ SlotList([doctor |-> "d1", clinic |-> "c1", visit_type |-> "procedure",
                 date |-> 0]) = <<>>
    /\ \E w \in WindowsFor("d2", "c2", 1, availability) :
          /\ w.start_time > w.end_time
          /\ WalkIterations(Combine(1, w.start_time), Combine(1, w.end_time),
                            visit_types["consultation"]) = 0
    /\ Respond([doctor_id |-> "d2", clinic_id |-> "c2",
                visit_type_id |-> "consultation", date |-> "2024-01-02"])
         .available_slots = <<>>
    /\ WalkIterations(At(1, 0, 0), At(1, 1, 0),
                      visit_types["consultation"]) = 4

====
